---- MODULE Spec2Model ----
(***************************************************************************)
(* Bi-Level Routing Attention (src/crat/bra_legacy.py).                    *)
(*                                                                         *)
(* Spec        construction of BiLevelRoutingAttention followed by one     *)
(*             forward call, followed step by step on tensor sizes.        *)
(* SpecRoute   TopkRouting.forward and KVGather.forward on tensor values.  *)
(* SpecLayout  the window partition and its inverse on tensor elements.    *)
(*                                                                         *)
(* Numbers: Python's None is None == -1 where the code tests "is None";    *)
(* where the code writes "a or b" the falsy value is 0.                    *)
(***************************************************************************)
EXTENDS Integers, Sequences, FiniteSets, TLC

VARIABLES
    cfg,          \* the constructor's arguments
    inst,         \* the module instance's attributes, NoInstance before/without one
    pc,           \* position in __init__ / forward
    raised,       \* the exception that ended the call, NoError otherwise
    inp,          \* forward's arguments: x.size() and ret_attn_mask
    loc,          \* forward's locals: N, D_in, H_in, W_in, C, pad_d, pad_r, pad_b, D, H, W
    x_size,       \* x.size() as forward rebinds x
    q_size,       \* q / q_pix size
    kv_pix_size,  \* kv_pix.size()
    r_idx_size,   \* r_idx.size() (= r_weight.size())
    out_size,     \* out.size()
    ret,          \* the names of the values forward returns, in order
    router,       \* TopkRouting attributes (SpecRoute)
    query,        \* TopkRouting.forward argument (n, p, c)
    key,          \* TopkRouting.forward argument (n, p, c)
    attn_logit,   \* TopkRouting.forward's local: the affinity matrix (n, p, p)
    r_weight,     \* routing weights (n, p, topk), each a fraction <<num, den>>
    r_idx,        \* routing indices (n, p, topk)
    kv,           \* KVGather.forward argument (n, p, w2, c_kv)
    topk_kv,      \* KVGather.forward result (n, p, topk, w2, c_kv)
    xt,           \* activation tensor (SpecLayout): index tuple -> element
    x_win,        \* partitioned tensor
    q_pix,        \* flattened / head-split tensor
    out_t         \* reassembled tensor

vars == <<cfg, inst, pc, raised, inp, loc, x_size, q_size, kv_pix_size,
          r_idx_size, out_size, ret, router, query, key, attn_logit, r_weight, r_idx,
          kv, topk_kv, xt, x_win, q_pix, out_t>>

sizeVars == <<inp, loc, x_size, q_size, kv_pix_size, r_idx_size, out_size, ret>>
routeVars == <<router, query, key, attn_logit, r_weight, r_idx, kv, topk_kv>>
layoutVars == <<xt, x_win, q_pix, out_t>>

None == -1
Unset == << >>
NoInstance == [constructed |-> FALSE]
NoError == [kind |-> "none", line |-> 0, step |-> "none"]
Error(k, l, s) == [kind |-> k, line |-> l, step |-> s]

(***************************************************************************)
(* Bounds of the model.                                                    *)
(***************************************************************************)
MaxExt == 3        \* depth, height, width of an input range over 1..MaxExt
MaxNWin == 2       \* n_win ranges over 1..MaxNWin

(***************************************************************************)
(* Defaults of the constructor's signature.                                *)
(***************************************************************************)
DefaultKvPerWin == 4
DefaultKvDownsampleRatio == 4


(***************************************************************************)
(* Constructor arguments.  kv_per_win and kv_downsample_ratio vary only    *)
(* for the modes that read them and keep their defaults otherwise.         *)
(***************************************************************************)
AttentionModes == {"qkvo", "qkv", "invalid"}
KvModes == {"identity", "avgpool", "maxpool", "ada_avgpool", "ada_maxpool",
            "fracpool", "conv", "bogus"}
DimSet == {2}
HeadSet == {1, 2}
QkDimSet == {0, 1}        \* 0: qk_dim not given
TopkSet == {1, 2}
BatchSet == {1, 2}

KvSettings ==
    {<<m, DefaultKvPerWin, DefaultKvDownsampleRatio>> : m \in KvModes}
    \cup {<<m, None, DefaultKvDownsampleRatio>> : m \in {"ada_avgpool", "ada_maxpool"}}
    \cup {<<m, DefaultKvPerWin, r>> : m \in {"avgpool", "maxpool"}, r \in {None, 1}}

Configs ==
    { [topk |-> t, dim |-> d, num_heads |-> h, n_win |-> w, qk_dim |-> q,
       kv_downsample_mode |-> k[1], kv_per_win |-> k[2], kv_downsample_ratio |-> k[3],
       param_attention |-> a, param_routing |-> pr, diff_routing |-> dr,
       soft_routing |-> sr, auto_pad |-> ap] :
        t \in TopkSet, d \in DimSet, h \in HeadSet, w \in 1..MaxNWin,
        q \in QkDimSet, k \in KvSettings, a \in AttentionModes,
        pr \in BOOLEAN, dr \in BOOLEAN, sr \in BOOLEAN, ap \in BOOLEAN }

(***************************************************************************)
(* BiLevelRoutingAttention.__init__                                        *)
(***************************************************************************)
\* self.qk_dim = qk_dim or dim
QkDim(c) == IF c.qk_dim = 0 THEN c.dim ELSE c.qk_dim

\* assert self.qk_dim % num_heads == 0 and self.dim % num_heads == 0
HeadsDivide(c) == QkDim(c) % c.num_heads = 0 /\ c.dim % c.num_heads = 0

\* assert not (self.param_routing and not self.diff_routing)
RoutingFlagsOk(c) == ~(c.param_routing /\ ~c.diff_routing)

\* faulty variant of MulWeight: diff_routing tested before soft_routing
MulWeightDiffFirst(c) ==
    IF c.diff_routing THEN "hard"
    ELSE IF c.soft_routing THEN "soft"
    ELSE "none"

\* the weighting mode handed to KVGather
MulWeight(c) ==
    IF c.soft_routing THEN "soft"
    ELSE IF c.diff_routing THEN "hard"
    ELSE "none"

\* faulty variant of AttnProjection: no final else, any other value taken as 'qkv'
AttnProjectionLenient(c) ==
    IF c.param_attention = "qkvo" THEN [raises |-> "none", wo |-> "Linear"]
    ELSE [raises |-> "none", wo |-> "Identity"]

\* the qkv mapping: the exception raised (or "none") and the layer bound to self.wo
AttnProjection(c) ==
    IF c.param_attention = "qkvo" THEN [raises |-> "none", wo |-> "Linear"]
    ELSE IF c.param_attention = "qkv" THEN [raises |-> "none", wo |-> "Identity"]
    ELSE [raises |-> "ValueError", wo |-> "unbound"]

\* the kv downsampling chain: the exception raised (or "none") and the layer
\* bound to self.kv_down.  The last branch formats its message with
\* self.kv_downsaple_mode, an attribute the instance does not have, so
\* torch.nn.Module.__getattr__ raises AttributeError before ValueError is built.
KvDown(c) ==
    LET m == c.kv_downsample_mode IN
    IF m = "ada_avgpool" THEN
        IF c.kv_per_win = None THEN [raises |-> "AssertionError", kv_down |-> "unbound"]
        ELSE [raises |-> "none", kv_down |-> "AdaptiveAvgPool2d"]
    ELSE IF m = "ada_maxpool" THEN
        IF c.kv_per_win = None THEN [raises |-> "AssertionError", kv_down |-> "unbound"]
        ELSE [raises |-> "none", kv_down |-> "AdaptiveMaxPool2d"]
    ELSE IF m = "maxpool" THEN
        IF c.kv_downsample_ratio = None THEN [raises |-> "AssertionError", kv_down |-> "unbound"]
        ELSE [raises |-> "none",
              kv_down |-> IF c.kv_downsample_ratio > 1 THEN "MaxPool2d" ELSE "Identity"]
    ELSE IF m = "avgpool" THEN
        IF c.kv_downsample_ratio = None THEN [raises |-> "AssertionError", kv_down |-> "unbound"]
        ELSE [raises |-> "none",
              kv_down |-> IF c.kv_downsample_ratio > 1 THEN "AvgPool2d" ELSE "Identity"]
    ELSE IF m = "identity" THEN [raises |-> "none", kv_down |-> "Identity"]
    ELSE IF m = "fracpool" THEN [raises |-> "NotImplementedError", kv_down |-> "unbound"]
    ELSE IF m = "conv" THEN [raises |-> "NotImplementedError", kv_down |-> "unbound"]
    ELSE [raises |-> "AttributeError", kv_down |-> "unbound"]

\* the instance a completed __init__ leaves
Instance(c) ==
    [constructed |-> TRUE, dim |-> c.dim, n_win |-> c.n_win, num_heads |-> c.num_heads,
     qk_dim |-> QkDim(c), topk |-> c.topk, mul_weight |-> MulWeight(c),
     wo |-> AttnProjection(c).wo, kv_down |-> KvDown(c).kv_down,
     auto_pad |-> c.auto_pad]

\* the first statement of __init__ that raises, NoError when none does
InitError(c) ==
    IF ~HeadsDivide(c) THEN Error("AssertionError", 131, "init")
    ELSE IF ~RoutingFlagsOk(c) THEN Error("AssertionError", 145, "init")
    ELSE IF AttnProjection(c).raises # "none" THEN Error(AttnProjection(c).raises, 168, "init")
    ELSE IF KvDown(c).raises # "none" THEN
        Error(KvDown(c).raises,
              CASE c.kv_downsample_mode = "ada_avgpool" -> 175
                [] c.kv_downsample_mode = "ada_maxpool" -> 178
                [] c.kv_downsample_mode = "maxpool" -> 181
                [] c.kv_downsample_mode = "avgpool" -> 184
                [] c.kv_downsample_mode = "fracpool" -> 194
                [] c.kv_downsample_mode = "conv" -> 197
                [] OTHER -> 199,
              "init")
    ELSE NoError

Construct ==
    /\ pc = "new"
    /\ IF InitError(cfg) = NoError
       THEN /\ inst' = Instance(cfg)
            /\ raised' = NoError
            /\ pc' = "ready"
       ELSE /\ inst' = NoInstance
            /\ raised' = InitError(cfg)
            /\ pc' = "init_failed"
    /\ UNCHANGED <<cfg, sizeVars, routeVars, layoutVars>>

(***************************************************************************)
(* BiLevelRoutingAttention.forward, on tensor sizes                        *)
(***************************************************************************)
ChannelSet == {1, 2}
Inputs == { <<n, d, h, w, c>> : n \in BatchSet, d \in 1..MaxExt, h \in 1..MaxExt,
                                 w \in 1..MaxExt, c \in ChannelSet }

\* (self.n_win - e % self.n_win) % self.n_win
Deficit(e, n) == (n - (e % n)) % n

\* F.pad(x, (0, 0, pad_l, pad_d, pad_l, pad_r, pad_t, pad_b)) on a 5-D x: the
\* pairs run from the last axis backwards, so the channel axis gets (0, 0), the
\* width axis (0, pad_d), the height axis (0, pad_r) and the depth axis (0, pad_b).
FPad(s, pad_d, pad_r, pad_b) == <<s[1], s[2] + pad_b, s[3] + pad_r, s[4] + pad_d, s[5]>>

\* faulty variant of Divisible: the 2-D assertion, height and width only
DivisibleHeightWidth(D, H, W, n) == H % n = 0 /\ W % n = 0

\* D % n_win == 0 and H % n_win == 0 and W % n_win == 0
Divisible(D, H, W, n) == D % n = 0 /\ H % n = 0 /\ W % n = 0

\* forward's entry: the auto_pad branch, or the divisibility assertion
Pad ==
    /\ pc = "ready"
    /\ \E s \in Inputs, m \in BOOLEAN :
        /\ inp' = [size |-> s, ret_attn_mask |-> m]
        /\ IF inst.auto_pad
           THEN LET pad_d == Deficit(s[2], inst.n_win)
                    pad_r == Deficit(s[4], inst.n_win)
                    pad_b == Deficit(s[3], inst.n_win)
                    p == FPad(s, pad_d, pad_r, pad_b)
                IN  /\ loc' = [N |-> s[1], D_in |-> s[2], H_in |-> s[3], W_in |-> s[4],
                               C |-> s[5], pad_d |-> pad_d, pad_r |-> pad_r,
                               pad_b |-> pad_b, D |-> p[2], H |-> p[3], W |-> p[4]]
                    /\ x_size' = p
                    /\ raised' = NoError
                    /\ pc' = "padded"
           ELSE /\ loc' = [N |-> s[1], D_in |-> None, H_in |-> None, W_in |-> None,
                           C |-> s[5], pad_d |-> None, pad_r |-> None, pad_b |-> None,
                           D |-> s[2], H |-> s[3], W |-> s[4]]
                /\ x_size' = s
                /\ IF Divisible(s[2], s[3], s[4], inst.n_win)
                   THEN raised' = NoError /\ pc' = "padded"
                   ELSE raised' = Error("AssertionError", 243, "Pad") /\ pc' = "raised"
    /\ UNCHANGED <<cfg, inst, q_size, kv_pix_size, r_idx_size, out_size, ret,
                   routeVars, layoutVars>>

\* rearrange(x, "n (q d) (j h) (i w) c -> n (q j i) d h w c", j, i, q = n_win)
PartitionSize(s, n) == <<s[1], n * n * n, s[2] \div n, s[3] \div n, s[4] \div n, s[5]>>

Partition ==
    /\ pc = "padded"
    /\ IF Divisible(x_size[2], x_size[3], x_size[4], inst.n_win)
       THEN /\ x_size' = PartitionSize(x_size, inst.n_win)
            /\ raised' = NoError
            /\ pc' = "partitioned"
       ELSE /\ x_size' = x_size
            /\ raised' = Error("EinopsError", 252, "Partition")
            /\ pc' = "raised"
    /\ UNCHANGED <<cfg, inst, inp, loc, q_size, kv_pix_size, r_idx_size, out_size, ret,
                   routeVars, layoutVars>>

\* q, kv, k, v = self.qkv(x): nn.Linear(dim, qk_dim + qk_dim + dim) on the last axis
Project ==
    /\ pc = "partitioned"
    /\ IF x_size[6] = inst.dim
       THEN /\ q_size' = [x_size EXCEPT ![6] = inst.qk_dim]
            /\ raised' = NoError
            /\ pc' = "projected"
       ELSE /\ q_size' = q_size
            /\ raised' = Error("RuntimeError", 262, "Project")
            /\ pc' = "raised"
    /\ UNCHANGED <<cfg, inst, inp, loc, x_size, kv_pix_size, r_idx_size, out_size, ret,
                   routeVars, layoutVars>>

\* q_pix = rearrange(q, 'n p3 d h w c -> n p3 (d h w) c')
FlatSize(s) == <<s[1], s[2], s[3] * s[4] * s[5], s[6]>>

\* kv_pix: self.kv_down on a 5-D '(n p3) c d h w' tensor.  nn.Identity passes it
\* through; the 2-D pooling layers take (N, C, H, W) or (C, H, W) input only
\* and raise RuntimeError on a 5-D one.
Flatten ==
    /\ pc = "projected"
    /\ IF inst.kv_down = "Identity"
       THEN /\ q_size' = FlatSize(q_size)
            /\ kv_pix_size' = [FlatSize(q_size) EXCEPT ![4] = inst.qk_dim + inst.dim]
            /\ raised' = NoError
            /\ pc' = "flattened"
       ELSE /\ q_size' = FlatSize(q_size)
            /\ kv_pix_size' = kv_pix_size
            /\ raised' = Error("RuntimeError", 272, "Downsample")
            /\ pc' = "raised"
    /\ UNCHANGED <<cfg, inst, inp, loc, x_size, r_idx_size, out_size, ret,
                   routeVars, layoutVars>>

\* q_win, k_win = means over the window; r_weight, r_idx = self.router(q_win, k_win).
\* torch.topk raises RuntimeError when k exceeds the size of the axis.
Route ==
    /\ pc = "flattened"
    /\ IF inst.topk <= q_size[2]
       THEN /\ r_idx_size' = <<q_size[1], q_size[2], inst.topk>>
            /\ raised' = NoError
            /\ pc' = "routed"
       ELSE /\ r_idx_size' = r_idx_size
            /\ raised' = Error("RuntimeError", 55, "Route")
            /\ pc' = "raised"
    /\ UNCHANGED <<cfg, inst, inp, loc, x_size, q_size, kv_pix_size, out_size, ret,
                   routeVars, layoutVars>>

\* kv_pix_sel = self.kv_gather(r_idx, r_weight, kv_pix): (n, p, topk, w2, c_kv)
GatherSize(r, k) == <<r[1], r[2], r[3], k[3], k[4]>>

Gather ==
    /\ pc = "routed"
    /\ IF inst.mul_weight = "hard"
       THEN /\ kv_pix_size' = kv_pix_size
            /\ raised' = Error("NotImplementedError", 89, "Gather")
            /\ pc' = "raised"
       ELSE /\ kv_pix_size' = GatherSize(r_idx_size, kv_pix_size)
            /\ raised' = NoError
            /\ pc' = "gathered"
    /\ UNCHANGED <<cfg, inst, inp, loc, x_size, q_size, r_idx_size, out_size, ret,
                   routeVars, layoutVars>>

\* q_pix: 'n p3 w3 (m c) -> (n p3) m w3 c'; out = softmax(q k) v: ((n p3), m, w3, dim / m)
Attend ==
    /\ pc = "gathered"
    /\ out_size' = <<q_size[1] * q_size[2], inst.num_heads, q_size[3],
                     inst.dim \div inst.num_heads>>
    /\ pc' = "attended"
    /\ UNCHANGED <<cfg, inst, raised, inp, loc, x_size, q_size, kv_pix_size, r_idx_size,
                   ret, routeVars, layoutVars>>

\* rearrange(out, '(n q j i) m (d h w) c -> n (q d) (j h) (i w) (m c)',
\*           j, i, q = n_win, d = D // n_win, h = H // n_win, w = W // n_win)
ReassembleSize(s, n, D, H, W) ==
    <<s[1] \div (n * n * n), n * (D \div n), n * (H \div n), n * (W \div n), s[2] * s[4]>>

\* the rearrange, then out = self.wo(out), which keeps the size
Reassemble ==
    /\ pc = "attended"
    /\ out_size' = ReassembleSize(out_size, inst.n_win, loc.D, loc.H, loc.W)
    /\ pc' = "reassembled"
    /\ UNCHANGED <<cfg, inst, raised, inp, loc, x_size, q_size, kv_pix_size, r_idx_size,
                   ret, routeVars, layoutVars>>

Min(a, b) == IF a < b THEN a ELSE b

\* out[:, :H_in, :W_in, :] on a 5-D out: the slices bound axes 1 and 2 (depth and
\* height); axis 3 (width) is taken whole and axis 4 is not indexed.
Crop(s, H_in, W_in) == <<s[1], Min(s[2], H_in), Min(s[3], W_in), s[4], s[5]>>

\* if self.auto_pad and (pad_r > 0 or pad_b > 0)
CropNeeded == inst.auto_pad /\ (loc.pad_r > 0 \/ loc.pad_b > 0)

\* the tuple forward returns
Returned(ret_attn_mask) ==
    IF ret_attn_mask
    THEN <<"out", "r_weight", "r_idx", "attn_weight", "q", "k", "v">>
    ELSE <<"out", "q", "k", "v">>

Return ==
    /\ pc = "reassembled"
    /\ out_size' = IF CropNeeded THEN Crop(out_size, loc.H_in, loc.W_in) ELSE out_size
    /\ ret' = Returned(inp.ret_attn_mask)
    /\ pc' = "returned"
    /\ UNCHANGED <<cfg, inst, raised, inp, loc, x_size, q_size, kv_pix_size, r_idx_size,
                   routeVars, layoutVars>>

Init ==
    /\ cfg \in Configs
    /\ inst = NoInstance
    /\ pc = "new"
    /\ raised = NoError
    /\ inp = Unset /\ loc = Unset
    /\ x_size = Unset /\ q_size = Unset /\ kv_pix_size = Unset
    /\ r_idx_size = Unset /\ out_size = Unset /\ ret = Unset
    /\ router = Unset /\ query = Unset /\ key = Unset /\ attn_logit = Unset
    /\ r_weight = Unset
    /\ r_idx = Unset /\ kv = Unset /\ topk_kv = Unset
    /\ xt = Unset /\ x_win = Unset /\ q_pix = Unset /\ out_t = Unset

Next ==
    \/ Construct
    \/ Pad
    \/ Partition
    \/ Project
    \/ Flatten
    \/ Route
    \/ Gather
    \/ Attend
    \/ Reassemble
    \/ Return

Spec == Init /\ [][Next]_vars

(***************************************************************************)
(* TopkRouting.forward and KVGather.forward, on tensor values              *)
(*                                                                         *)
(* A tensor is a nested tuple.  Values are integers; a routing weight is   *)
(* an exact fraction <<numerator, denominator>>.  The exponential of the   *)
(* softmax is taken to the base 2, which keeps every weight positive, the  *)
(* order of the weights that of the logits and their sum equal to one.     *)
(***************************************************************************)
MaxWin == 3        \* a routed tensor has 1..MaxWin windows
MaxCells == 4      \* and at most MaxCells entries (batch * windows * channels)

RECURSIVE SumSeq(_)
SumSeq(v) == IF v = << >> THEN 0 ELSE v[1] + SumSeq(Tail(v))

RECURSIVE Pow2(_)
Pow2(e) == IF e <= 0 THEN 1 ELSE 2 * Pow2(e - 1)

\* qk_dim ** -0.5 (an integer for qk_dim = 1 only; Init gives qk_scale otherwise)
InvSqrt(d) == CASE d = 1 -> 1

\* self.scale = qk_scale or qk_dim ** -0.5
Scale(qk_scale, qk_dim) == IF qk_scale # 0 THEN qk_scale ELSE InvSqrt(qk_dim)

\* self.emb: nn.Linear(qk_dim, qk_dim), y[o] = sum_c weight[o][c] * x[c] + bias[o],
\* or nn.Identity()
Emb(e, v) ==
    IF e.kind = "Identity" THEN v
    ELSE [o \in 1..Len(v) |-> SumSeq([c \in 1..Len(v) |-> e.weight[o][c] * v[c]]) + e.bias[o]]

\* attn_logit = (query_hat * self.scale) @ key_hat.transpose(-2, -1)
AttnLogit(r, q, k) ==
    [b \in 1..Len(q) |-> [i \in 1..Len(q[b]) |-> [j \in 1..Len(k[b]) |->
        SumSeq([c \in 1..r.qk_dim |->
                   (Emb(r.emb, q[b][i])[c] * r.scale) * Emb(r.emb, k[b][j])[c]]) ]]]

\* faulty variant of TopK: the k smallest entries (largest=False)
TopKSmallest(row, k, pi) ==
    LET Beats(a, b) == row[a] < row[b] \/ (row[a] = row[b] /\ pi[a] < pi[b])
        Rank(a) == Cardinality({b \in DOMAIN row : Beats(b, a)})
        At(m) == CHOOSE a \in DOMAIN row : Rank(a) = m - 1
    IN  [values |-> [m \in 1..k |-> row[At(m)]],
         indices |-> [m \in 1..k |-> At(m) - 1]]

\* torch.topk(row, k) along the last axis (largest, sorted): the k largest
\* entries in non-increasing order and their 0-based indices.  Which of
\* several equal entries comes first is left to the backend: pi ranks the
\* positions, and among equal entries the one pi ranks lower comes first.
\* Every order torch may return for one row is the order of some pi.
TopK(row, k, pi) ==
    LET Beats(a, b) == row[a] > row[b] \/ (row[a] = row[b] /\ pi[a] < pi[b])
        Rank(a) == Cardinality({b \in DOMAIN row : Beats(b, a)})
        At(m) == CHOOSE a \in DOMAIN row : Rank(a) = m - 1
    IN  [values |-> [m \in 1..k |-> row[At(m)]],
         indices |-> [m \in 1..k |-> At(m) - 1]]

\* nn.Softmax(dim=-1) on the selected logits
Softmax(ls) ==
    LET lo == CHOOSE a \in {ls[j] : j \in DOMAIN ls} : \A j \in DOMAIN ls : a <= ls[j]
        den == SumSeq([j \in DOMAIN ls |-> Pow2(ls[j] - lo)])
    IN  [j \in DOMAIN ls |-> <<Pow2(ls[j] - lo), den>>]

\* r_weight.view(n, p2, topk, 1, 1) * topk_kv: a fraction times an integer
Mul(w, v) == <<w[1] * v, w[2]>>

\* faulty variant of TorchGather: the index is not spread over the query
\* windows, every query window reads the first one's selection
TorchGatherFirstQuery(idx, t) ==
    [b \in 1..Len(t) |-> [i \in 1..Len(t[b]) |-> [j \in 1..Len(idx[b][i]) |->
        [x \in 1..Len(t[b][1]) |-> [c \in 1..Len(t[b][1][1]) |->
            t[b][idx[b][1][j] + 1][x][c] ]]]]]

\* torch.gather(kv.view(n, 1, p2, w2, c_kv).expand(-1, p2, -1, -1, -1), dim=2,
\*              index=r_idx.view(n, p2, topk, 1, 1).expand(-1, -1, -1, w2, c_kv))
TorchGather(idx, t) ==
    [b \in 1..Len(t) |-> [i \in 1..Len(t[b]) |-> [j \in 1..Len(idx[b][i]) |->
        [x \in 1..Len(t[b][1]) |-> [c \in 1..Len(t[b][1][1]) |->
            t[b][idx[b][i][j] + 1][x][c] ]]]]]

\* if self.mul_weight == 'soft': topk_kv = r_weight.view(n, p2, topk, 1, 1) * topk_kv
SoftWeighted(w, g) ==
    [b \in DOMAIN g |-> [i \in DOMAIN g[b] |-> [j \in DOMAIN g[b][i] |->
        [x \in DOMAIN g[b][i][j] |-> [c \in DOMAIN g[b][i][j][x] |->
            Mul(w[b][i][j], g[b][i][j][x][c]) ]]]]]

\* the inputs of the two calls
ValSet == {0, 1}         \* the entries of query and key
RouteShapes ==
    { <<n, p, c>> \in BatchSet \X (1..MaxWin) \X {1, 2} : n * p * c <= MaxCells }

Tensor3(n, p, c, V) == [1..n -> [1..p -> [1..c -> V]]]

\* a learned re-embedding for each channel width
LinearFor(c) ==
    IF c = 1 THEN [kind |-> "Linear", weight |-> << <<-1>> >>, bias |-> <<1>>]
    ELSE [kind |-> "Linear", weight |-> << <<0, 1>>, <<1, -1>> >>, bias |-> <<0, 1>>]

\* param_routing comes with diff_routing, as the block's constructor requires
RoutingFlags == {<<FALSE, FALSE>>, <<TRUE, TRUE>>}

Routers(p, c) ==
    { [topk |-> t, qk_dim |-> c, scale |-> Scale(qs, c), diff_routing |-> fl[2],
       emb |-> IF fl[1] THEN LinearFor(c) ELSE [kind |-> "Identity"]] :
        t \in 1..(p + 1), qs \in (IF c = 1 THEN {0} ELSE {2}), fl \in RoutingFlags }

\* a key/value tensor (n, p, w2, c_kv) whose entries are pairwise different
KvTensor(n, p, w2, c_kv) ==
    [b \in 1..n |-> [i \in 1..p |-> [x \in 1..w2 |-> [c \in 1..c_kv |->
        (((b - 1) * p + (i - 1)) * w2 + (x - 1)) * c_kv + c ]]]]

InitRoute ==
    /\ \E sh \in RouteShapes :
        /\ router \in Routers(sh[2], sh[3])
        /\ query \in Tensor3(sh[1], sh[2], sh[3], ValSet)
        /\ key \in Tensor3(sh[1], sh[2], sh[3], ValSet)
        /\ kv = KvTensor(sh[1], sh[2], 2, 2)
    /\ inst \in {[constructed |-> TRUE, mul_weight |-> m] : m \in {"none", "soft", "hard"}}
    /\ pc = "router_call"
    /\ raised = NoError
    /\ cfg = Unset /\ inp = Unset /\ loc = Unset
    /\ x_size = Unset /\ q_size = Unset /\ kv_pix_size = Unset
    /\ r_idx_size = Unset /\ out_size = Unset /\ ret = Unset
    /\ attn_logit = Unset /\ r_weight = Unset /\ r_idx = Unset /\ topk_kv = Unset
    /\ xt = Unset /\ x_win = Unset /\ q_pix = Unset /\ out_t = Unset

\* TopkRouting.forward(query, key), lines 51-54: detach, emb, attn_logit
TopkRoutingLogits ==
    /\ pc = "router_call"
    /\ attn_logit' = AttnLogit(router, query, key)
    /\ pc' = "router_logits"
    /\ UNCHANGED <<cfg, inst, raised, sizeVars, router, query, key, r_weight, r_idx, kv,
                   topk_kv, layoutVars>>

\* TopkRouting.forward(query, key), lines 55-58: topk, routing_act, return.
\* torch.topk raises RuntimeError when k exceeds the size of the axis.
TopkRoutingTopk ==
    /\ pc = "router_logits"
    /\ IF router.topk > Len(key[1])
       THEN /\ raised' = Error("RuntimeError", 55, "Route")
            /\ pc' = "raised"
            /\ UNCHANGED <<r_weight, r_idx>>
       ELSE \E pi \in Permutations(1..Len(key[1])) :
            \E top \in {[b \in DOMAIN attn_logit |-> [i \in DOMAIN attn_logit[b] |->
                            TopK(attn_logit[b][i], router.topk, pi)]]} :
                /\ r_idx' = [b \in DOMAIN top |-> [i \in DOMAIN top[b] |-> top[b][i].indices]]
                /\ r_weight' = [b \in DOMAIN top |-> [i \in DOMAIN top[b] |->
                                   Softmax(top[b][i].values)]]
                /\ raised' = NoError
                /\ pc' = "router_done"
    /\ UNCHANGED <<cfg, inst, sizeVars, router, query, key, attn_logit, kv, topk_kv,
                   layoutVars>>

\* KVGather.forward(r_idx, r_weight, kv)
KVGatherForward ==
    /\ pc = "router_done"
    /\ IF inst.mul_weight = "soft"
       THEN /\ \E g \in {TorchGather(r_idx, kv)} : topk_kv' = SoftWeighted(r_weight, g)
            /\ raised' = NoError
            /\ pc' = "gather_done"
       ELSE IF inst.mul_weight = "hard"
       THEN /\ topk_kv' = topk_kv
            /\ raised' = Error("NotImplementedError", 89, "Gather")
            /\ pc' = "raised"
       ELSE /\ topk_kv' = TorchGather(r_idx, kv)
            /\ raised' = NoError
            /\ pc' = "gather_done"
    /\ UNCHANGED <<cfg, inst, sizeVars, router, query, key, attn_logit, r_weight, r_idx, kv,
                   layoutVars>>

NextRoute ==
    \/ TopkRoutingLogits
    \/ TopkRoutingTopk
    \/ KVGatherForward

SpecRoute == InitRoute /\ [][NextRoute]_vars

(***************************************************************************)
(* The layout changes of forward, on tensor elements                       *)
(*                                                                         *)
(* A tensor is a function from 0-based index tuples to elements.  An einops *)
(* group (a b) is the index a * len(b) + b.  The Linear layers between the *)
(* steps change values, not places, and are left out: q is taken to be the *)
(* partitioned x itself.                                                   *)
(***************************************************************************)
MaxSide == 4       \* depth, height, width of the activation range over 1..MaxSide

RECURSIVE Idx(_)
Idx(sh) == IF sh = << >> THEN { << >> }
           ELSE { <<a>> \o t : a \in 0..(sh[1] - 1), t \in Idx(Tail(sh)) }

\* faulty variant of Partitioned: the windows numbered (q i j) instead of (q j i)
PartitionedSwapped(x, s, nw) ==
    LET d == s[2] \div nw
        h == s[3] \div nw
        w == s[4] \div nw
    IN  [t \in Idx(PartitionSize(s, nw)) |->
            x[<<t[1], ((t[2] \div (nw * nw)) * d) + t[3],
                      ((t[2] % nw) * h) + t[4],
                      (((t[2] \div nw) % nw) * w) + t[5], t[6]>>]]

\* rearrange(x, "n (q d) (j h) (i w) c -> n (q j i) d h w c", j, i, q = n_win)
\* on x of size s
Partitioned(x, s, nw) ==
    LET d == s[2] \div nw
        h == s[3] \div nw
        w == s[4] \div nw
    IN  [t \in Idx(PartitionSize(s, nw)) |->
            x[<<t[1], ((t[2] \div (nw * nw)) * d) + t[3],
                      (((t[2] \div nw) % nw) * h) + t[4],
                      ((t[2] % nw) * w) + t[5], t[6]>>]]

\* rearrange(q, 'n p3 d h w c -> n p3 (d h w) c') on q of size s
FlattenPixels(q, s) ==
    [t \in Idx(FlatSize(s)) |->
        q[<<t[1], t[2], t[3] \div (s[4] * s[5]), (t[3] \div s[5]) % s[4], t[3] % s[5], t[4]>>]]

\* 'n p3 w3 (m c) -> (n p3) m w3 c', m = num_heads
HeadsSize(s, m) == <<s[1] * s[2], m, s[3], s[4] \div m>>

\* rearrange(q_pix, 'n p3 w3 (m c) -> (n p3) m w3 c', m=self.num_heads) on q_pix of size s
SplitHeads(q, s, m) ==
    [t \in Idx(HeadsSize(s, m)) |->
        q[<<t[1] \div s[2], t[1] % s[2], t[3], (t[2] * (s[4] \div m)) + t[4]>>]]

\* rearrange(out, '(n q j i) m (d h w) c -> n (q d) (j h) (i w) (m c)', j, i, q = n_win,
\*           d = D // n_win, h = H // n_win, w = W // n_win) on out of size s
Reassembled(o, s, nw, D, H, W) ==
    LET d == D \div nw
        h == H \div nw
        w == W \div nw
    IN  [t \in Idx(ReassembleSize(s, nw, D, H, W)) |->
            o[<<((((t[1] * nw) + (t[2] \div d)) * nw + (t[3] \div h)) * nw) + (t[4] \div w),
                t[5] \div s[4],
                ((((t[2] % d) * h) + (t[3] % h)) * w) + (t[4] % w),
                t[5] % s[4]>>]]

LayoutInputs == { <<n, d, h, w, 2>> : n \in BatchSet, d \in 1..MaxSide, h \in 1..MaxSide,
                                       w \in 1..MaxSide }

InitLayout ==
    /\ inp \in {[size |-> s, ret_attn_mask |-> FALSE] : s \in LayoutInputs}
    /\ inst \in {[constructed |-> TRUE, n_win |-> nw, num_heads |-> m, auto_pad |-> FALSE] :
                    nw \in 1..MaxNWin, m \in HeadSet}
    /\ xt = [t \in Idx(inp.size) |-> t]
    /\ x_size = inp.size
    /\ pc = "layout_call"
    /\ raised = NoError
    /\ cfg = Unset /\ loc = Unset
    /\ q_size = Unset /\ kv_pix_size = Unset
    /\ r_idx_size = Unset /\ out_size = Unset /\ ret = Unset
    /\ router = Unset /\ query = Unset /\ key = Unset /\ attn_logit = Unset
    /\ r_weight = Unset
    /\ r_idx = Unset /\ kv = Unset /\ topk_kv = Unset
    /\ x_win = Unset /\ q_pix = Unset /\ out_t = Unset

\* line 252; einops raises when an extent is not a multiple of n_win
LayoutPartition ==
    /\ pc = "layout_call"
    /\ IF Divisible(x_size[2], x_size[3], x_size[4], inst.n_win)
       THEN /\ x_win' = Partitioned(xt, x_size, inst.n_win)
            /\ x_size' = PartitionSize(x_size, inst.n_win)
            /\ raised' = NoError
            /\ pc' = "layout_partitioned"
       ELSE /\ UNCHANGED <<x_win, x_size>>
            /\ raised' = Error("EinopsError", 252, "Partition")
            /\ pc' = "raised"
    /\ UNCHANGED <<cfg, inst, inp, loc, q_size, kv_pix_size, r_idx_size, out_size, ret,
                   routeVars, xt, q_pix, out_t>>

\* line 271
LayoutFlatten ==
    /\ pc = "layout_partitioned"
    /\ q_pix' = FlattenPixels(x_win, x_size)
    /\ q_size' = FlatSize(x_size)
    /\ pc' = "layout_flattened"
    /\ UNCHANGED <<cfg, inst, raised, inp, loc, x_size, kv_pix_size, r_idx_size, out_size,
                   ret, routeVars, xt, x_win, out_t>>

\* line 309
LayoutSplitHeads ==
    /\ pc = "layout_flattened"
    /\ q_pix' = SplitHeads(q_pix, q_size, inst.num_heads)
    /\ q_size' = HeadsSize(q_size, inst.num_heads)
    /\ pc' = "layout_heads"
    /\ UNCHANGED <<cfg, inst, raised, inp, loc, x_size, kv_pix_size, r_idx_size, out_size,
                   ret, routeVars, xt, x_win, out_t>>

\* lines 315-316, D, H, W being the extents of line 242
LayoutReassemble ==
    /\ pc = "layout_heads"
    /\ out_t' = Reassembled(q_pix, q_size, inst.n_win, inp.size[2], inp.size[3], inp.size[4])
    /\ out_size' = ReassembleSize(q_size, inst.n_win, inp.size[2], inp.size[3], inp.size[4])
    /\ pc' = "layout_done"
    /\ UNCHANGED <<cfg, inst, raised, inp, loc, x_size, q_size, kv_pix_size, r_idx_size,
                   ret, routeVars, xt, x_win, q_pix>>

NextLayout ==
    \/ LayoutPartition
    \/ LayoutFlatten
    \/ LayoutSplitHeads
    \/ LayoutReassemble

SpecLayout == InitLayout /\ [][NextLayout]_vars

(***************************************************************************)
(* Claims checked under Spec                                               *)
(***************************************************************************)
Completed == pc = "returned"

\* C1: a forward call that completes returns an output whose size equals the
\* input's size, auto_pad with indivisible extents included.
C1_OutputSizeEqualsInput == Completed => out_size = inp.size

\* the smallest multiple of n that is >= e
CeilMultiple(e, n) == ((e + n - 1) \div n) * n

\* C2: with auto_pad the Pad step brings each of depth, height, width to the
\* smallest multiple of n_win not below it, and the Partition step that follows
\* does not fail.
C2_PadToNearestMultiple ==
    (inst.constructed /\ inst.auto_pad /\ inp # Unset) =>
        /\ pc = "padded" =>
              x_size = <<inp.size[1], CeilMultiple(inp.size[2], inst.n_win),
                         CeilMultiple(inp.size[3], inst.n_win),
                         CeilMultiple(inp.size[4], inst.n_win), inp.size[5]>>
        /\ raised.step # "Partition"

\* C3: without the auxiliary flag forward returns the output tensor only; with
\* it, the output followed by routing weights, routing indices, attention
\* weights and q, k, v.
C3_ReturnsOutputOnly ==
    Completed =>
        ret = IF inp.ret_attn_mask
              THEN <<"out", "r_weight", "r_idx", "attn_weight", "q", "k", "v">>
              ELSE <<"out">>

ConfigurationErrors == {"AssertionError", "ValueError"}

C6_KvModeErrors ==
    LET m == cfg.kv_downsample_mode
        restValid == /\ (IF cfg.qk_dim = 0 THEN cfg.dim ELSE cfg.qk_dim) % cfg.num_heads = 0
                     /\ cfg.dim % cfg.num_heads = 0
                     /\ ~(cfg.param_routing /\ ~cfg.diff_routing)
                     /\ cfg.param_attention \in {"qkvo", "qkv"}
                     /\ cfg.kv_per_win # None /\ cfg.kv_downsample_ratio # None
    IN  (pc # "new" /\ restValid) =>
            /\ m \in {"fracpool", "conv"} =>
                  pc = "init_failed" /\ raised.kind = "NotImplementedError"
            /\ m \in {"identity", "avgpool", "maxpool", "ada_avgpool", "ada_maxpool"} =>
                  inst.constructed
            /\ m \notin {"identity", "avgpool", "maxpool", "ada_avgpool", "ada_maxpool",
                         "fracpool", "conv"} =>
                  pc = "init_failed" /\ raised.kind = "ValueError"

\* C7: with auto_pad off, an input whose depth, height or width is not a
\* multiple of n_win fails the assertion of line 243 before any step has run
\* and nothing is returned; an input with all three divisible passes it.
C7_DivisibilityAssert ==
    (inst.constructed /\ ~inst.auto_pad /\ inp # Unset) =>
        IF \E a \in 2..4 : inp.size[a] % inst.n_win # 0
        THEN /\ pc = "raised"
             /\ raised = Error("AssertionError", 243, "Pad")
             /\ x_size = inp.size
             /\ q_size = Unset /\ kv_pix_size = Unset /\ r_idx_size = Unset
             /\ out_size = Unset /\ ret = Unset
        ELSE raised.step # "Pad"

C7_Witness ==
    /\ pc = "raised"
    /\ ~inst.auto_pad
    /\ raised = Error("AssertionError", 243, "Pad")
    /\ inp.size[2] % inst.n_win = 0 /\ inp.size[3] % inst.n_win = 0
    /\ inp.size[4] % inst.n_win # 0

HardBlock == inst.constructed /\ inst.mul_weight = "hard"

\* the weighting mode as the claim words it
ClaimedMode(soft, diff) ==
    IF soft THEN "soft" ELSE IF diff THEN "hard" ELSE "none"

\* C10 as stated: the mode is soft / hard / none by the flags, and every forward
\* call on a hard block ends in the not-implemented error of the Gather step.
C10_HardAlwaysFailsAtGather ==
    /\ inst.constructed =>
          inst.mul_weight = ClaimedMode(cfg.soft_routing, cfg.diff_routing)
    /\ HardBlock => pc # "returned"
    /\ (HardBlock /\ pc = "raised") =>
          raised = Error("NotImplementedError", 89, "Gather")

\* C10 amended: the mode is soft / hard / none by the flags; a hard block
\* constructs when the rest of its configuration is valid; no forward call on a hard block gets past the
\* Gather step or returns anything; and a call that gets through Route fails
\* at Gather with the not-implemented error, before any attention is computed.
C10_HardNeverCompletes ==
    /\ inst.constructed =>
          inst.mul_weight = ClaimedMode(cfg.soft_routing, cfg.diff_routing)
    /\ (pc # "new" /\ cfg.diff_routing /\ ~cfg.soft_routing
           /\ (IF cfg.qk_dim = 0 THEN cfg.dim ELSE cfg.qk_dim) % cfg.num_heads = 0
           /\ cfg.dim % cfg.num_heads = 0
           /\ cfg.param_attention \in {"qkvo", "qkv"}
           /\ cfg.kv_downsample_mode \in {"identity", "avgpool", "maxpool",
                                           "ada_avgpool", "ada_maxpool"}
           /\ cfg.kv_per_win # None /\ cfg.kv_downsample_ratio # None) =>
          inst.constructed
    /\ (pc \notin {"new", "init_failed"} /\ cfg.diff_routing /\ ~cfg.soft_routing) =>
          /\ HardBlock
          /\ pc \notin {"gathered", "attended", "reassembled", "returned"}
          /\ out_size = Unset /\ ret = Unset
          /\ raised.step = "Gather" =>
                /\ raised = Error("NotImplementedError", 89, "Gather")
                /\ r_idx_size # Unset
          /\ (pc = "raised" /\ r_idx_size # Unset) => raised.step = "Gather"

C10_Witness ==
    /\ HardBlock
    /\ cfg.param_routing
    /\ pc = "raised"
    /\ raised = Error("NotImplementedError", 89, "Gather")
    /\ r_idx_size # Unset

(***************************************************************************)
(* Claims checked under SpecRoute                                          *)
(***************************************************************************)
\* the affinity of query window i and key window j of batch element b
Affinity(b, i, j) ==
    SumSeq([c \in 1..router.qk_dim |->
               (Emb(router.emb, query[b][i])[c] * router.scale)
               * Emb(router.emb, key[b][j])[c]])

\* C4: attn_logit is the windows x windows affinity matrix of each batch
\* element, and with topk <= the number of windows every query window of every
\* batch element gets exactly topk routing indices, pairwise distinct, each a
\* window number, and they are those of the topk largest affinities of its
\* row: no window left out has a larger affinity than one selected, and the
\* selected affinities come in non-increasing order, so their values are fixed
\* by the input.
C4_TopkIndices ==
    /\ pc = "router_logits" =>
          \A b \in 1..Len(query) : \A i, j \in 1..Len(query[b]) :
              attn_logit[b][i][j] = Affinity(b, i, j)
    /\ (pc = "router_done" /\ router.topk <= Len(key[1])) =>
          \A b \in 1..Len(query) : \A i \in 1..Len(query[b]) :
              \E row \in {attn_logit[b][i]} :
              \E sel \in {r_idx[b][i]} :
                  /\ Len(sel) = router.topk
                  /\ \A m \in 1..Len(sel) : sel[m] \in 0..(Len(key[b]) - 1)
                  /\ \A m1, m2 \in 1..Len(sel) : m1 # m2 => sel[m1] # sel[m2]
                  /\ \A m \in 1..Len(sel) : \A u \in 0..(Len(key[b]) - 1) :
                        (\A m2 \in 1..Len(sel) : sel[m2] # u) => row[sel[m] + 1] >= row[u + 1]
                  /\ \A m \in 1..(Len(sel) - 1) : row[sel[m] + 1] >= row[sel[m + 1] + 1]

C4_Witness ==
    /\ pc = "router_done"
    /\ Len(key[1]) = 3 /\ router.topk = 2
    /\ router.emb.kind = "Linear"
    /\ r_idx[1][1] = <<2, 0>>
    /\ Affinity(1, 1, 3) > Affinity(1, 1, 1)
    /\ Affinity(1, 1, 1) = Affinity(1, 1, 2)

\* C8: the gathered tensor holds, for query window i and slot j, the pixel
\* block of the window r_idx[b][i][j]: a plain copy in mode none, each entry
\* times the routing weight r_weight[b][i][j] in mode soft; there is one block
\* per query window and slot, and kv is still the tensor that was passed in.
C8_GatherCopies ==
    pc = "gather_done" =>
        /\ inst.mul_weight \in {"none", "soft"}
        /\ Len(topk_kv) = Len(kv)
        /\ kv = KvTensor(Len(kv), Len(kv[1]), Len(kv[1][1]), Len(kv[1][1][1]))
        /\ \A b \in 1..Len(kv) :
              /\ Len(topk_kv[b]) = Len(kv[b])
              /\ \A i \in 1..Len(kv[b]) :
                    /\ Len(topk_kv[b][i]) = router.topk
                    /\ \A j \in 1..router.topk :
                       \E out \in {topk_kv[b][i][j]} :
                       \E sel \in {kv[b][r_idx[b][i][j] + 1]} :
                       \E w \in {r_weight[b][i][j]} :
                       \A x \in 1..Len(sel) : \A c \in 1..Len(sel[x]) :
                          out[x][c] = IF inst.mul_weight = "none" THEN sel[x][c]
                                      ELSE <<w[1] * sel[x][c], w[2]>>

C8_Witness ==
    /\ pc = "gather_done"
    /\ inst.mul_weight = "soft"
    /\ Len(kv[1]) = 3 /\ router.topk = 2
    /\ r_idx[1][1] = <<2, 0>> /\ r_idx[1][2] = <<0, 2>>
    /\ r_weight[1][1] # r_weight[1][2]
    /\ topk_kv[1][1][2] # topk_kv[1][2][1]

(***************************************************************************)
(* Claims checked under SpecLayout                                         *)
(***************************************************************************)
\* C9: partitioning an activation whose depth, height and width are multiples
\* of n_win into n_win^3 windows and reassembling them with the layout of
\* step 10 gives back the activation: same size, every element in its place.
C9_PartitionReassembleRoundTrip ==
    pc = "layout_done" =>
        /\ out_size = inp.size
        /\ DOMAIN out_t = DOMAIN xt
        /\ \A t \in DOMAIN xt : out_t[t] = xt[t]

C9_Witness ==
    /\ pc = "layout_done"
    /\ inst.n_win = 2 /\ inst.num_heads = 2
    /\ inp.size = <<2, 4, 2, 4, 2>>
    /\ x_win[<<1, 5, 1, 0, 1, 1>>] = <<1, 3, 0, 3, 1>>
    /\ out_t[<<1, 3, 0, 3, 1>>] = <<1, 3, 0, 3, 1>>

====
